---- MODULE Spec2Model ----
(***************************************************************************)
(* DFCI_Analyzer_Demo: GTF position annotation (bin/annotator.py,          *)
(* bin/utility.py, bin/constant.py), the FASTQ and FASTA analyzers         *)
(* (bin/fastq_analyzer.py, bin/fasta_analyzer.py), the Ensembl retriever   *)
(* (bin/ensembl_variant_info_retriever.py) and the command line            *)
(* (dfci_analysis.py).                                                     *)
(*                                                                         *)
(* A Python str is a sequence of characters.  Delimiters are themselves;   *)
(* a run of other characters that the code never looks into (a key name,   *)
(* a value, a chromosome name) is one character of the sequence.           *)
(***************************************************************************)
EXTENDS Integers, Sequences, FiniteSets, Bags, TLC

VARIABLES
    knowledge_df,        \* self.knowledge_df: the feature table, in file order
    input_positions_df,  \* self.input_positions_df: the query positions
    num_cpus,            \* self.num_cpus as passed to GTFAnnotation
    chuck_size,          \* self.chuck_size
    pc,                  \* where the coordinator is in annotate_all_positions
    sub_df,              \* np.array_split's partitions
    pool_size,           \* number of processes of the Pool (0: no pool yet)
    task,                \* per task of the pool: "queued", "running", "finished"
    task_result,         \* per task: what its worker sent back (NotCalled before)
    completion_order,    \* task indices in the order the workers finished them
    gathered,            \* task indices in the order the imap iterator yielded them
    results,             \* the list parallel_process builds
    annotated_df,        \* pd.concat(results)
    write_index,         \* rows of annotated_df already written
    output_file,         \* the output path: whether a file exists, and its lines
    raised,              \* the exception annotate_all_positions let out ("" if none)
    arg,                 \* arguments of a single call of a function
    ret,                 \* its return value
    warnings,            \* the zero-size warnings emitted so far (print / logger.warning)
    fastq,               \* the FastqAnalyzer object and its analyze() call
    fasta,               \* the FastaAnalyzer construction and its analyze() call
    retriever            \* the EnsemblVariantInfoRetriever object and its fetch loop

pipeVars == <<knowledge_df, input_positions_df, num_cpus, chuck_size, pc,
              sub_df, pool_size, task, task_result, completion_order, gathered,
              results, annotated_df, write_index, output_file, raised>>
callVars == <<arg, ret>>
extVars == <<warnings, fastq, fasta, retriever>>
vars == <<knowledge_df, input_positions_df, num_cpus, chuck_size, pc,
          sub_df, pool_size, task, task_result, completion_order, gathered,
          results, annotated_df, write_index, output_file, raised, arg, ret,
          warnings, fastq, fasta, retriever>>

----------------------------------------------------------------------------
(* Bounds of the model *)

MaxFields == 3       \* fields of a generated attribute string
MaxFeatures == 2     \* rows of a generated feature table
MaxCoord == 2        \* feature coordinates are 1..MaxCoord
MaxPositions == 3    \* rows of the query-position file
MaxCpus == 4         \* requested worker counts are 0..MaxCpus
MaxChunk == 2        \* chunk sizes are 1..MaxChunk
MaxIds == 2          \* variant IDs in the retriever's input file
MaxFiles == 2        \* FASTQ / FASTA files found under the input path
MaxEntries == 4      \* entries of the iterator given to batch_iterator
MaxBatch == 3        \* batch sizes are 1..MaxBatch

----------------------------------------------------------------------------
(* Characters and str methods *)

SEMI == ";"
DQ == "\""
SP == " "
TAB == "\t"
NL == "\n"
DOT == "."

\* str.strip() / str.rstrip() without argument remove these
Whitespace == {SP, TAB, NL}

RECURSIVE RStripChars(_, _)
\* s.rstrip(chars): drop every trailing character that is in chars
RStripChars(s, chars) ==
    IF Len(s) > 0 /\ s[Len(s)] \in chars
    THEN RStripChars(SubSeq(s, 1, Len(s) - 1), chars)
    ELSE s

RECURSIVE LStripChars(_, _)
\* s.lstrip(chars)
LStripChars(s, chars) ==
    IF Len(s) > 0 /\ s[1] \in chars
    THEN LStripChars(Tail(s), chars)
    ELSE s

\* s.strip()
Strip(s) == LStripChars(RStripChars(s, Whitespace), Whitespace)

RECURSIVE Split(_, _)
\* s.split(sep): the pieces between occurrences of sep, empty pieces kept
Split(s, sep) ==
    IF \A i \in 1..Len(s) : s[i] # sep
    THEN <<s>>
    ELSE LET i == CHOOSE k \in 1..Len(s) :
                      s[k] = sep /\ \A j \in 1..(k - 1) : s[j] # sep
         IN  <<SubSeq(s, 1, i - 1)>> \o Split(SubSeq(s, i + 1, Len(s)), sep)

RECURSIVE Join(_, _)
\* sep.join(parts)
Join(sep, parts) ==
    IF Len(parts) = 0 THEN <<>>
    ELSE IF Len(parts) = 1 THEN parts[1]
    ELSE parts[1] \o <<sep>> \o Join(sep, Tail(parts))

Digits == <<"0", "1", "2", "3", "4", "5", "6", "7", "8", "9">>

RECURSIVE Str(_)
\* str(n) of a non-negative integer: its decimal digits
Str(n) ==
    IF n < 10 THEN <<Digits[n + 1]>>
    ELSE Str(n \div 10) \o <<Digits[(n % 10) + 1]>>

----------------------------------------------------------------------------
(* bin/constant.py *)

\* the five column names; the third one ends with a space
annotation_fields ==
    << <<"gene_id">>, <<"transcript_id">>, <<"exon_number", SP>>,
       <<"exon_id">>, <<"gene_name">> >>

----------------------------------------------------------------------------
(* GTFAnnotation.extract_annotation *)

IndexError == "IndexError"
ValueError == "ValueError"
TypeError == "TypeError"
KeyError == "KeyError"
AttributeError == "AttributeError"

Returned(v) == [exc |-> "", value |-> v]
Raise(e) == [exc |-> e, value |-> <<>>]

\* mutant of DictGet: a never-assigned key reads as the empty string
DictGetEmptyDefault(d, key) == IF key \in DOMAIN d THEN d[key] ELSE <<>>

\* defaultdict(lambda: "."): d[key] of a key that was never assigned
DictGet(d, key) == IF key \in DOMAIN d THEN d[key] ELSE <<DOT>>

\* d[key] = value
DictSet(d, key, value) ==
    [k \in (DOMAIN d) \cup {key} |-> IF k = key THEN value ELSE d[k]]

\* mutant of AttributeFields: the string is split without the rstrip
AttributeFieldsUnstripped(attributes_field) == Split(attributes_field, SEMI)

\* line 64
AttributeFields(attributes_field) ==
    Split(RStripChars(attributes_field, {SEMI}), SEMI)

\* field.split('"')[0].strip()
FieldKey(field) == Strip(Split(field, DQ)[1])

\* field.split('"')[1]: an IndexError when the field holds no '"'
FieldHasValue(field) == Len(Split(field, DQ)) >= 2
FieldValue(field) == Split(field, DQ)[2]

\* lines 65-67: the loop over the fields, assigning in order; after[i] is the
\* dict once the first i fields are assigned, and the first field without a
\* '"' ends the loop with an IndexError
FillDict(fields) ==
    LET after[i \in 0..Len(fields)] ==
            IF i = 0 THEN << >>
            ELSE DictSet(after[i - 1], FieldKey(fields[i]), FieldValue(fields[i]))
    IN  IF \E i \in 1..Len(fields) : ~FieldHasValue(fields[i])
        THEN Raise(IndexError)
        ELSE Returned(after[Len(fields)])

\* lines 52-69
extract_annotation(attributes_field) ==
    LET filled == FillDict(AttributeFields(attributes_field))
    IN  IF filled.exc # "" THEN Raise(filled.exc)
        ELSE Returned(Join(TAB, [i \in 1..Len(annotation_fields) |->
                                    DictGet(filled.value, annotation_fields[i])]))

----------------------------------------------------------------------------
(* GTFAnnotation.annotate_position *)

\* mutant of Overlaps: the interval is open at its end
OverlapsHalfOpen(feature, chromosome, position) ==
    /\ feature.chr = chromosome
    /\ feature.start <= position
    /\ feature.end > position

\* lines 85-89: the row filter
Overlaps(feature, chromosome, position) ==
    /\ feature.chr = chromosome
    /\ feature.start <= position
    /\ feature.end >= position

\* mutant of OverlappingGenes: the selection is sorted by start coordinate
OverlappingGenesByStart(table, chromosome, position) ==
    SortSeq(SelectSeq(table, LAMBDA feature : Overlaps(feature, chromosome, position)),
            LAMBDA a, b : a.start < b.start)

\* the filtered table: boolean-mask selection keeps the table's row order
OverlappingGenes(table, chromosome, position) ==
    SelectSeq(table, LAMBDA feature : Overlaps(feature, chromosome, position))

\* str(chromosome) + "\t" + str(position) + "\t"
RowPrefix(chromosome, position) == <<chromosome, TAB>> \o Str(position) \o <<TAB>>

\* mutant of FallbackRow: the prefix alone, without the placeholders
FallbackRowBare(chromosome, position) == RowPrefix(chromosome, position)

\* line 94: the row of a position no feature overlaps
FallbackRow(chromosome, position) ==
    RowPrefix(chromosome, position)
    \o Join(TAB, [i \in 1..Len(annotation_fields) |-> <<DOT>>])

\* mutant of annotate_position: a feature whose attributes do not parse is
\* skipped instead of failing the call
annotate_position_skipping(table, chromosome, position) ==
    LET genes == OverlappingGenes(table, chromosome, position)
        good  == SelectSeq(genes, LAMBDA g : extract_annotation(g.attributes).exc = "")
    IN  IF Len(good) = 0
        THEN Returned(FallbackRow(chromosome, position))
        ELSE Returned(Join(NL, [i \in 1..Len(good) |->
                                  RowPrefix(chromosome, position)
                                  \o extract_annotation(good[i].attributes).value]))

\* lines 71-98.  Series.apply calls extract_annotation row by row, so the
\* first overlapping feature whose attributes do not parse raises.
annotate_position(table, chromosome, position) ==
    LET genes == OverlappingGenes(table, chromosome, position)
        rows  == [i \in 1..Len(genes) |-> extract_annotation(genes[i].attributes)]
        bad   == {i \in 1..Len(genes) : rows[i].exc # ""}
    IN  IF bad # {}
        THEN Raise(rows[CHOOSE i \in bad : \A j \in bad : i <= j].exc)
        ELSE IF Len(genes) = 0
        THEN Returned(FallbackRow(chromosome, position))
        ELSE Returned(Join(NL, [i \in 1..Len(genes) |->
                                  RowPrefix(chromosome, position) \o rows[i].value]))

----------------------------------------------------------------------------
(* Attribute strings given to extract_annotation *)

\* key names occurring in generated attribute strings; "note" is not a column
NoteKey == "note"
PermKeys == {"gene_id", "transcript_id", "exon_number", "exon_id", "gene_name"}
ShortKeys == {"gene_id", "exon_number", "gene_name", NoteKey}

\* the value a generated field gives its key
ValueOf(key) ==
    CASE key = "gene_id" -> "G1"
      [] key = "transcript_id" -> "T1"
      [] key = "exon_number" -> "7"
      [] key = "exon_id" -> "E1"
      [] key = "gene_name" -> "Foo"
      [] OTHER -> "n1"

\* quoted: key "value"   emptyval: key ""   bare: key (no '"' at all)
Shapes == {"quoted", "emptyval", "bare"}

\* optional blanks before the key, between key and '"', after the closing '"'
Styles == [pre : BOOLEAN, mid : BOOLEAN, post : BOOLEAN]
ShortStyles == {st \in Styles : st.pre = st.mid /\ st.post = FALSE}

\* what follows the last field
Terminators == {<<>>, <<SEMI>>, <<SEMI, SEMI>>, <<SEMI, SP>>}

Blank(flag) == IF flag THEN <<SP>> ELSE <<>>

RenderField(f, st) ==
    Blank(st.pre) \o <<f.key>> \o Blank(st.mid)
    \o (CASE f.shape = "quoted" -> <<DQ, ValueOf(f.key), DQ>>
          [] f.shape = "emptyval" -> <<DQ, DQ>>
          [] OTHER -> <<>>)
    \o Blank(st.post)

\* the text of an attribute column: the fields joined by ';', then the terminator
RenderAttributes(fields, st, term) ==
    Join(SEMI, [i \in 1..Len(fields) |-> RenderField(fields[i], st)]) \o term

Injective(q) == \A i, j \in 1..Len(q) : q[i] = q[j] => i = j

\* the five columns' keys, each once, in every order
PermFieldSeqs ==
    {q \in [1..5 -> [key : PermKeys, shape : {"quoted"}]] : Injective(q)}

\* up to MaxFields fields, keys repeated or missing, any shape
ShortFieldSeqs ==
    UNION {[1..n -> [key : ShortKeys, shape : Shapes]] : n \in 1..MaxFields}

AttrArgs ==
    {[op |-> "extract_annotation", fields |-> q, style |-> st, term |-> t,
      attributes_field |-> RenderAttributes(q, st, t)] :
        q \in PermFieldSeqs, st \in Styles, t \in {<<>>, <<SEMI>>}}
    \cup
    {[op |-> "extract_annotation", fields |-> q, style |-> st, term |-> t,
      attributes_field |-> RenderAttributes(q, st, t)] :
        q \in ShortFieldSeqs, st \in ShortStyles, t \in Terminators}

----------------------------------------------------------------------------
(* Specification of extract_annotation alone *)

\* the output path holds no file
NoFile == [exists |-> FALSE, lines |-> <<>>]
NotCalled == [exc |-> "NotCalled", value |-> <<>>]

\* the pipeline is not running
PipeIdle ==
    /\ knowledge_df = <<>>
    /\ input_positions_df = <<>>
    /\ num_cpus = 1
    /\ chuck_size = 1
    /\ pc = "idle"
    /\ sub_df = <<>>
    /\ pool_size = 0
    /\ task = <<>>
    /\ task_result = <<>>
    /\ completion_order = <<>>
    /\ gathered = <<>>
    /\ results = <<>>
    /\ annotated_df = <<>>
    /\ write_index = 0
    /\ output_file = NoFile
    /\ raised = ""

\* no analyzer or retriever object exists, nothing was warned about
Idle == [pc |-> "idle"]
ExtIdle ==
    /\ warnings = <<>>
    /\ fastq = Idle
    /\ fasta = Idle
    /\ retriever = Idle

\* neither the pipeline runs nor a single function is called
PipeOff ==
    /\ PipeIdle
    /\ arg = <<>>
    /\ ret = NotCalled

InitAttr ==
    /\ PipeIdle
    /\ ExtIdle
    /\ arg \in AttrArgs
    /\ ret = NotCalled

CallExtractAnnotation ==
    /\ arg.op = "extract_annotation"
    /\ ret = NotCalled
    /\ ret' = extract_annotation(arg.attributes_field)
    /\ UNCHANGED <<extVars, pipeVars, arg>>

NextAttr == CallExtractAnnotation

SpecAttr == InitAttr /\ [][NextAttr]_vars

----------------------------------------------------------------------------
(* Feature tables and queries given to annotate_position *)

\* chromosome names; "1" and "chr1" name the same chromosome to a biologist
Chromosomes == {"chr1", "1"}

\* gene_id "G1"; gene_name "Foo";
AttrGene == <<"gene_id", SP, DQ, "G1", DQ, SEMI, SP, "gene_name", SP, DQ, "Foo", DQ, SEMI>>
\* transcript_id "T1"; exon_id "E1";
AttrExon == <<"transcript_id", SP, DQ, "T1", DQ, SEMI, SP, "exon_id", SP, DQ, "E1", DQ, SEMI>>
\* gene_id G1;   (the value is not quoted)
AttrUnquoted == <<"gene_id", SP, "G1", SEMI>>

\* start > end is accepted by the loader, so it is generated too
Features ==
    [chr : Chromosomes, start : 1..MaxCoord, end : 1..MaxCoord,
     attributes : {AttrGene, AttrExon}]

FeatureTables == UNION {[1..n -> Features] : n \in 1..MaxFeatures}

PosArgs ==
    {[op |-> "annotate_position", table |-> t, chromosome |-> "chr1", position |-> p] :
        t \in FeatureTables, p \in 0..(MaxCoord + 1)}

----------------------------------------------------------------------------
(* Specification of annotate_position alone *)

InitPos ==
    /\ PipeIdle
    /\ ExtIdle
    /\ arg \in PosArgs
    /\ ret = NotCalled

CallAnnotatePosition ==
    /\ arg.op = "annotate_position"
    /\ ret = NotCalled
    /\ ret' = annotate_position(arg.table, arg.chromosome, arg.position)
    /\ UNCHANGED <<extVars, pipeVars, arg>>

NextPos == CallAnnotatePosition

SpecPos == InitPos /\ [][NextPos]_vars

----------------------------------------------------------------------------
(* GTFAnnotation.execute_annotation and the helpers of annotate_all_positions *)

Max(a, b) == IF a >= b THEN a ELSE b
Min(a, b) == IF a <= b THEN a ELSE b

\* least element of a non-empty set of integers
Least(S) == CHOOSE i \in S : \A j \in S : i <= j

\* lines 100-113.  np.vectorize without otypes refuses size-0 inputs with a
\* ValueError; otherwise it calls annotate_position row by row.
execute_annotation(table, dataframe) ==
    LET cells == [i \in 1..Len(dataframe) |->
                     annotate_position(table, dataframe[i].chromosome,
                                       dataframe[i].position)]
        bad   == {i \in 1..Len(dataframe) : cells[i].exc # ""}
    IN  IF Len(dataframe) = 0 THEN Raise(ValueError)
        ELSE IF bad # {} THEN Raise(cells[Least(bad)].exc)
        ELSE Returned([i \in 1..Len(dataframe) |->
                          [chromosome |-> dataframe[i].chromosome,
                           position   |-> dataframe[i].position,
                           annotation |-> cells[i].value]])

\* line 121: the local num_cpus of annotate_all_positions
LocalNumCpus(requested) == Max(requested - 1, 1)

\* mutant of array_split: the rows are dealt out to the sections in turn
array_split_dealing(df, n) ==
    [k \in 1..n |->
        SelectSeq([i \in 1..Len(df) |-> [row |-> df[i], at |-> i]],
                  LAMBDA e : (e.at - 1) % n = k - 1)]

array_split_round_robin(df, n) ==
    [k \in 1..n |->
        [i \in 1..Len(array_split_dealing(df, n)[k]) |->
            array_split_dealing(df, n)[k][i].row]]

\* line 122: np.array_split(df, n): n contiguous sections, the first
\* len(df) % n of them one row longer than the others
array_split(df, n) ==
    LET each   == Len(df) \div n
        extras == Len(df) % n
        first(k) == (k - 1) * each + Min(k - 1, extras)
        size(k)  == IF k <= extras THEN each + 1 ELSE each
    IN  [k \in 1..n |-> SubSeq(df, first(k) + 1, first(k) + size(k))]

\* pool.imap(func, sources, chunk_size): the sources, chunk_size at a time,
\* are the pool's tasks
get_tasks(sources, size) ==
    LET n == (Len(sources) + size - 1) \div size
    IN  [t \in 1..n |-> SubSeq(sources, (t - 1) * size + 1, Min(t * size, Len(sources)))]

\* what a worker sends back for one task: func over the task's sources in
\* order, or the first exception func raised
mapstar(table, chunk) ==
    LET outs == [i \in 1..Len(chunk) |-> execute_annotation(table, chunk[i])]
        bad  == {i \in 1..Len(chunk) : outs[i].exc # ""}
    IN  IF bad # {} THEN Raise(outs[Least(bad)].exc)
        ELSE Returned([i \in 1..Len(chunk) |-> outs[i].value])

RECURSIVE Concat(_)
\* pd.concat(frames): the frames' rows, frame after frame
Concat(frames) ==
    IF Len(frames) = 0 THEN <<>> ELSE Head(frames) \o Concat(Tail(frames))

\* line 127
Header == Join(TAB, <<<<"chr">>, <<"pos">>>> \o annotation_fields)

\* mutant of WrittenLines: the cell is written as it is, as one line
WrittenLinesUnsplit(annotation) == <<Strip(annotation)>>

\* line 130: the physical lines one cell of the annotation column becomes
WrittenLines(annotation) == Split(Strip(annotation), NL)

\* mutant of Yieldable: any finished task not yet yielded (imap_unordered)
YieldableUnordered(t) ==
    /\ task[t] = "finished"
    /\ \A i \in 1..Len(gathered) : gathered[i] # t

\* the imap iterator yields task t only when every task before it was yielded
Yieldable(t) == t = Len(gathered) + 1 /\ task[t] = "finished"

----------------------------------------------------------------------------
(* Inputs of the annotation command *)

Feature(c, s, e, a) == [chr |-> c, start |-> s, end |-> e, attributes |-> a]
Query(c, p) == [chromosome |-> c, position |-> p]

\* two features sharing position 2, the later-starting one first in the file
TableOverlap == << Feature("chr1", 2, 3, AttrExon), Feature("chr1", 1, 2, AttrGene) >>
\* a feature whose attribute value is not quoted
TableUnquoted == << Feature("chr1", 1, 2, AttrGene), Feature("1", 1, 1, AttrUnquoted) >>

PipelineTables == {TableOverlap, TableUnquoted}
PipelineQueries == {Query("chr1", 2), Query("chr1", 3), Query("1", 1)}

\* the rows of the position file; with names given, pd.read_csv turns a file
\* without rows into an empty table
PositionLists == UNION {[1..n -> PipelineQueries] : n \in 0..MaxPositions}

\* what the output path holds before the run: nothing, or an older file
StaleFile == [exists |-> TRUE, lines |-> << <<"stale">> >>]

----------------------------------------------------------------------------
(* annotate_all_positions, with parallel_process and the pool's workers *)

Init ==
    /\ knowledge_df \in PipelineTables
    /\ input_positions_df \in PositionLists
    /\ num_cpus \in 0..MaxCpus
    /\ chuck_size \in 1..MaxChunk
    /\ pc = "start"
    /\ sub_df = <<>>
    /\ pool_size = 0
    /\ task = <<>>
    /\ task_result = <<>>
    /\ completion_order = <<>>
    /\ gathered = <<>>
    /\ results = <<>>
    /\ annotated_df = <<>>
    /\ write_index = 0
    /\ output_file \in {NoFile, StaleFile}
    /\ raised = ""
    /\ arg = <<>>
    /\ ret = NotCalled
    /\ ExtIdle

\* lines 121-124 up to pool.imap: split, start the pool, queue the tasks
Dispatch ==
    /\ pc = "start"
    /\ LET n     == LocalNumCpus(num_cpus)
           parts == array_split(input_positions_df, n)
           tasks == get_tasks(parts, chuck_size)
       IN  /\ pool_size' = n
           /\ sub_df' = parts
           /\ task' = [t \in 1..Len(tasks) |-> "queued"]
           /\ task_result' = [t \in 1..Len(tasks) |-> NotCalled]
    /\ pc' = "gathering"
    /\ UNCHANGED <<extVars, knowledge_df, input_positions_df, num_cpus, chuck_size,
                   completion_order, gathered, results, annotated_df, write_index,
                   output_file, raised, arg, ret>>

\* an idle worker takes the oldest queued task
WorkerTake(t) ==
    /\ pc = "gathering"
    /\ task[t] = "queued"
    /\ \A u \in 1..(t - 1) : task[u] # "queued"
    /\ Cardinality({u \in 1..Len(task) : task[u] = "running"}) < pool_size
    /\ task' = [task EXCEPT ![t] = "running"]
    /\ UNCHANGED <<extVars, knowledge_df, input_positions_df, num_cpus, chuck_size, pc,
                   sub_df, pool_size, task_result, completion_order, gathered,
                   results, annotated_df, write_index, output_file, raised, arg, ret>>

\* mutant of WorkerFinish: the worker also appends its rows to the output file
WorkerFinishWriting(t) ==
    /\ pc = "gathering"
    /\ task[t] = "running"
    /\ task' = [task EXCEPT ![t] = "finished"]
    /\ task_result' = [task_result EXCEPT
                          ![t] = mapstar(knowledge_df, get_tasks(sub_df, chuck_size)[t])]
    /\ completion_order' = Append(completion_order, t)
    /\ output_file' = [exists |-> TRUE, lines |-> output_file.lines \o <<Header>>]
    /\ UNCHANGED <<extVars, knowledge_df, input_positions_df, num_cpus, chuck_size, pc,
                   sub_df, pool_size, gathered, results, annotated_df, write_index,
                   raised, arg, ret>>

\* a worker finishes its task and sends the result (or the exception) back
WorkerFinish(t) ==
    /\ pc = "gathering"
    /\ task[t] = "running"
    /\ task' = [task EXCEPT ![t] = "finished"]
    /\ task_result' = [task_result EXCEPT
                          ![t] = mapstar(knowledge_df, get_tasks(sub_df, chuck_size)[t])]
    /\ completion_order' = Append(completion_order, t)
    /\ UNCHANGED <<extVars, knowledge_df, input_positions_df, num_cpus, chuck_size, pc,
                   sub_df, pool_size, gathered, results, annotated_df, write_index,
                   output_file, raised, arg, ret>>

\* list(pool.imap(...)) receives the next task's results
YieldResult(t) ==
    /\ pc = "gathering"
    /\ Yieldable(t)
    /\ task_result[t].exc = ""
    /\ gathered' = Append(gathered, t)
    /\ results' = results \o task_result[t].value
    /\ UNCHANGED <<extVars, knowledge_df, input_positions_df, num_cpus, chuck_size, pc,
                   sub_df, pool_size, task, task_result, completion_order,
                   annotated_df, write_index, output_file, raised, arg, ret>>

\* the next task's result is an exception: the iterator raises it, the with
\* block terminates the pool, and @log re-raises it out of parallel_process
\* and out of annotate_all_positions
RaiseFromWorker(t) ==
    /\ pc = "gathering"
    /\ Yieldable(t)
    /\ task_result[t].exc # ""
    /\ raised' = task_result[t].exc
    /\ pc' = "failed"
    /\ UNCHANGED <<extVars, knowledge_df, input_positions_df, num_cpus, chuck_size,
                   sub_df, pool_size, task, task_result, completion_order, gathered,
                   results, annotated_df, write_index, output_file, arg, ret>>

\* line 125, once every task was yielded
ConcatResults ==
    /\ pc = "gathering"
    /\ Len(gathered) = Len(task)
    /\ annotated_df' = Concat(results)
    /\ pc' = "open"
    /\ UNCHANGED <<extVars, knowledge_df, input_positions_df, num_cpus, chuck_size,
                   sub_df, pool_size, task, task_result, completion_order, gathered,
                   results, write_index, output_file, raised, arg, ret>>

\* lines 126-128: open(..., 'w') truncates or creates; the header is written
OpenOutput ==
    /\ pc = "open"
    /\ output_file' = [exists |-> TRUE, lines |-> <<Header>>]
    /\ pc' = "writing"
    /\ UNCHANGED <<extVars, knowledge_df, input_positions_df, num_cpus, chuck_size,
                   sub_df, pool_size, task, task_result, completion_order, gathered,
                   results, annotated_df, write_index, raised, arg, ret>>

\* lines 129-131: one pass of the loop over annotated_df
WriteRow ==
    /\ pc = "writing"
    /\ write_index < Len(annotated_df)
    /\ output_file' = [output_file EXCEPT !.lines =
                          @ \o WrittenLines(annotated_df[write_index + 1].annotation)]
    /\ write_index' = write_index + 1
    /\ UNCHANGED <<extVars, knowledge_df, input_positions_df, num_cpus, chuck_size, pc,
                   sub_df, pool_size, task, task_result, completion_order, gathered,
                   results, annotated_df, raised, arg, ret>>

\* the with block closes the file; annotate_all_positions returns
CloseOutput ==
    /\ pc = "writing"
    /\ write_index = Len(annotated_df)
    /\ pc' = "done"
    /\ UNCHANGED <<extVars, knowledge_df, input_positions_df, num_cpus, chuck_size,
                   sub_df, pool_size, task, task_result, completion_order, gathered,
                   results, annotated_df, write_index, output_file, raised, arg, ret>>

Next ==
    \/ Dispatch
    \/ \E t \in 1..Len(task) : WorkerTake(t)
    \/ \E t \in 1..Len(task) : WorkerFinish(t)
    \/ \E t \in 1..Len(task) : YieldResult(t)
    \/ \E t \in 1..Len(task) : RaiseFromWorker(t)
    \/ ConcatResults
    \/ OpenOutput
    \/ WriteRow
    \/ CloseOutput

Spec == Init /\ [][Next]_vars

----------------------------------------------------------------------------
(* The annotation command on a zero-byte feature file and on a feature whose
   gene_name is the empty string *)

\* gene_id "G1"; gene_name "";
AttrEmptyName ==
    <<"gene_id", SP, DQ, "G1", DQ, SEMI, SP, "gene_name", SP, DQ, DQ, SEMI>>

\* position 1 lies in the first feature only, position 2 in both
TableEmptyName ==
    << Feature("chr1", 1, 2, AttrEmptyName), Feature("chr1", 2, 2, AttrGene) >>

\* pd.read_csv with names given turns a file of zero bytes into a table
\* without rows
TableZeroByte == << >>

\* utility.py line 115: the warning find_input_files prints for such a file
ZeroSizeWarning(path) == [file |-> path, text |-> "has zero file size"]

EdgeQueries == {Query("chr1", 1), Query("chr1", 2)}
EdgePositionLists == UNION {[1..n -> EdgeQueries] : n \in 1..MaxPositions}

\* the state after GTFAnnotation.__init__ (lines 27-34)
InitEdge ==
    /\ knowledge_df \in {TableZeroByte, TableEmptyName}
    /\ warnings = IF knowledge_df = TableZeroByte
                  THEN <<ZeroSizeWarning("knowledge_file")>> ELSE <<>>
    /\ input_positions_df \in EdgePositionLists
    /\ num_cpus \in 0..MaxCpus
    /\ chuck_size \in 1..MaxChunk
    /\ pc = "start"
    /\ sub_df = <<>>
    /\ pool_size = 0
    /\ task = <<>>
    /\ task_result = <<>>
    /\ completion_order = <<>>
    /\ gathered = <<>>
    /\ results = <<>>
    /\ annotated_df = <<>>
    /\ write_index = 0
    /\ output_file = NoFile
    /\ raised = ""
    /\ arg = <<>>
    /\ ret = NotCalled
    /\ fastq = Idle
    /\ fasta = Idle
    /\ retriever = Idle

SpecEdge == InitEdge /\ [][Next]_vars

----------------------------------------------------------------------------
(* bin/utility.py: the log decorator *)

\* mutant of log: the wrapper logs the exception and returns None instead of
\* raising it again
log_swallowing(outcome) ==
    IF outcome.exc # "" THEN [exc |-> "", none |-> TRUE, json |-> <<>>] ELSE outcome

\* lines 53-64: what the caller of a wrapped function gets, given what the
\* function's body did: the result as it is, or, after logger.exception, the
\* same exception through the bare raise
log(outcome) == outcome

\* line 60: the record the wrapper of func writes when the body raised
LogRecords(func, outcome) ==
    IF outcome.exc # "" THEN <<[func |-> func, exc |-> outcome.exc]>> ELSE <<>>

----------------------------------------------------------------------------
(* bin/utility.py: batch_iterator *)

RECURSIVE batch_loop(_, _, _, _)
\* lines 140-147: the for loop over the remaining entries, with the batch
\* under construction and the batches yielded so far; after the loop a
\* non-empty batch is yielded too
batch_loop(entries, batch_size, batch, yielded) ==
    IF entries = <<>>
    THEN IF batch # <<>> THEN Append(yielded, batch) ELSE yielded
    ELSE LET grown == Append(batch, Head(entries))
         IN  IF Len(grown) = batch_size
             THEN batch_loop(Tail(entries), batch_size, <<>>, Append(yielded, grown))
             ELSE batch_loop(Tail(entries), batch_size, grown, yielded)

\* mutant of batch_iterator: the batch left over after the loop is not yielded
batch_iterator_full_only(iterator, batch_size) ==
    SelectSeq(batch_loop(iterator, batch_size, <<>>, <<>>),
              LAMBDA b : Len(b) = batch_size)

\* lines 136-147: the batches the generator yields, in order
batch_iterator(iterator, batch_size) == batch_loop(iterator, batch_size, <<>>, <<>>)

\* the records of a file, as fast_file_reader hands them over
BatchArgs ==
    {[op |-> "batch_iterator", iterator |-> q, batch_size |-> n] :
        q \in UNION {[1..k -> {"r1", "r2"}] : k \in 0..MaxEntries},
        n \in 1..MaxBatch}

InitBatch ==
    /\ PipeIdle
    /\ ExtIdle
    /\ arg \in BatchArgs
    /\ ret = NotCalled

\* the generator is run to its end
CallBatchIterator ==
    /\ arg.op = "batch_iterator"
    /\ ret = NotCalled
    /\ ret' = Returned(batch_iterator(arg.iterator, arg.batch_size))
    /\ UNCHANGED <<extVars, pipeVars, arg>>

NextBatch == CallBatchIterator

SpecBatch == InitBatch /\ [][NextBatch]_vars

----------------------------------------------------------------------------
(* bin/fastq_analyzer.py: FastqAnalyzer *)

RECURSIVE count_loop_at_least(_, _, _, _)
\* mutant of count_loop: a record as long as the threshold counts as long
count_loop_at_least(records, threshold, long_seq_count, total_seq_count) ==
    IF records = <<>>
    THEN [long_seq_count |-> long_seq_count, total_seq_count |-> total_seq_count]
    ELSE count_loop_at_least(Tail(records), threshold,
                             IF Head(records) >= threshold
                             THEN long_seq_count + 1 ELSE long_seq_count,
                             total_seq_count + 1)

RECURSIVE count_loop(_, _, _, _)
\* lines 128-135: the scan over the records of the file (a record is the
\* length of its sequence) with the two accumulators
count_loop(records, threshold, long_seq_count, total_seq_count) ==
    IF records = <<>>
    THEN [long_seq_count |-> long_seq_count, total_seq_count |-> total_seq_count]
    ELSE count_loop(Tail(records), threshold,
                    IF Head(records) > threshold
                    THEN long_seq_count + 1 ELSE long_seq_count,
                    total_seq_count + 1)

\* line 139: (long_seq_count / total_seq_count) * 100, kept as the fraction
\* num / den it stands for
Percentage(long_seq_count, total_seq_count) ==
    [num |-> long_seq_count * 100, den |-> total_seq_count]

\* line 137: the literal 0
ZeroPercentage == [num |-> 0, den |-> 1]

\* lines 117-140: the tuple (file_path, total_seq_count, percentage, threshold)
calculate_long_sequences_percentage(file, threshold) ==
    LET counted == count_loop(file.records, threshold, 0, 0)
    IN  [file_path |-> file.path,
         total_seq_count |-> counted.total_seq_count,
         percentage |-> IF counted.total_seq_count = 0
                        THEN ZeroPercentage
                        ELSE Percentage(counted.long_seq_count, counted.total_seq_count),
         threshold |-> threshold]

\* what a FASTQ file may hold: no record at all (a file of zero bytes), or
\* records of these sequence lengths
FastqContents == {<<>>, <<2>>, <<3>>, <<1, 3>>, <<3, 2, 3>>}
Thresholds == {2, 3}

\* the files find_fastq_files collects, in os.walk order; it raises when
\* there is none
FastqFileLists ==
    UNION {{[i \in 1..n |-> [path |-> <<"fastq", i>>, records |-> c[i]]] :
               c \in [1..n -> FastqContents]} : n \in 1..MaxFiles}

\* lines 113-115: one warning per file of size zero, in list order
FastqWarnings(files) ==
    [k \in 1..Len(SelectSeq(files, LAMBDA f : f.records = <<>>)) |->
        ZeroSizeWarning(SelectSeq(files, LAMBDA f : f.records = <<>>)[k].path)]

\* the state after FastqAnalyzer.__init__ (lines 72-92)
InitFastq ==
    /\ PipeOff
    /\ fasta = Idle
    /\ retriever = Idle
    /\ \E files \in FastqFileLists, t \in Thresholds, c \in 0..MaxCpus :
           /\ warnings = FastqWarnings(files)
           /\ fastq = [pc |-> "start",
                       fastq_files |-> files,
                       threshold |-> t,
                       num_cpus |-> c,
                       num_processes |-> 0,
                       task |-> <<>>,           \* per file: "queued", "running", "finished"
                       task_result |-> <<>>,    \* per file: the tuple its worker sent back
                       finished_order |-> <<>>, \* file indices in order of completion
                       results |-> <<>>,        \* what analyze returns
                       raised |-> ""]

\* lines 166-168: Pool(num_processes) refuses a size below 1 with a
\* ValueError, which @log raises again; otherwise pool.map queues one task
\* per file
FastqStartPool ==
    /\ fastq.pc = "start"
    /\ LET n == Min(fastq.num_cpus, Len(fastq.fastq_files))
       IN  fastq' = IF n < 1
                    THEN [fastq EXCEPT !.pc = "failed", !.raised = log(Raise(ValueError)).exc]
                    ELSE [fastq EXCEPT
                             !.pc = "mapping",
                             !.num_processes = n,
                             !.task = [i \in 1..Len(fastq.fastq_files) |-> "queued"],
                             !.task_result = [i \in 1..Len(fastq.fastq_files) |-> NotCalled]]
    /\ UNCHANGED <<pipeVars, callVars, warnings, fasta, retriever>>

\* an idle worker takes the oldest queued file
FastqWorkerTake(i) ==
    /\ fastq.pc = "mapping"
    /\ fastq.task[i] = "queued"
    /\ \A j \in 1..(i - 1) : fastq.task[j] # "queued"
    /\ Cardinality({j \in 1..Len(fastq.task) : fastq.task[j] = "running"})
          < fastq.num_processes
    /\ fastq' = [fastq EXCEPT !.task[i] = "running"]
    /\ UNCHANGED <<pipeVars, callVars, warnings, fasta, retriever>>

\* a worker has run calculate_long_sequences_percentage on its file
FastqWorkerFinish(i) ==
    /\ fastq.pc = "mapping"
    /\ fastq.task[i] = "running"
    /\ fastq' = [fastq EXCEPT
                    !.task[i] = "finished",
                    !.task_result[i] =
                        calculate_long_sequences_percentage(fastq.fastq_files[i],
                                                            fastq.threshold),
                    !.finished_order = Append(@, i)]
    /\ UNCHANGED <<pipeVars, callVars, warnings, fasta, retriever>>

\* lines 168-169: pool.map returns the tuples in the order of the file list
FastqReturn ==
    /\ fastq.pc = "mapping"
    /\ \A i \in 1..Len(fastq.task) : fastq.task[i] = "finished"
    /\ fastq' = [fastq EXCEPT !.pc = "done", !.results = fastq.task_result]
    /\ UNCHANGED <<pipeVars, callVars, warnings, fasta, retriever>>

NextFastq ==
    \/ FastqStartPool
    \/ \E i \in 1..Len(fastq.task) : FastqWorkerTake(i)
    \/ \E i \in 1..Len(fastq.task) : FastqWorkerFinish(i)
    \/ FastqReturn

SpecFastq == InitFastq /\ [][NextFastq]_vars

----------------------------------------------------------------------------
(* bin/fasta_analyzer.py: FastaAnalyzer, and its construction by main *)

\* constant.py lines 1-5: the keys of filename_suffix
filename_suffix_keys ==
    {"find_most_frequent_sequences", "calculate_long_sequences_percentage", "annotation"}

\* fasta_analyzer.py line 11: the parameters of __init__ after self
InitParameters ==
    {"directory", "num_cpus", "method", "batch_size", "n_top", "turn_on_split_file"}

\* dfci_analysis.py lines 79-80: the arguments main passes
MainArguments == {"directory", "num_cpus", "method", "n_top", "chuck_size"}

\* a caller that names only parameters __init__ has
DirectArguments == {"directory", "num_cpus", "method", "n_top"}

\* the methods of FastaAnalyzer and the positional parameters each takes
\* after self
MethodParameters ==
    [fast_file_reader |-> 2, count_sequences |-> 1,
     find_most_frequent_sequences |-> 2, downstream_trigger |-> 0, analyze |-> 0]

\* lines 99-101: the keys of downstream_map
downstream_map_keys == {"count_sequences"}

\* Counter(str(record.seq) for record in sequences): the distinct sequences
\* in order of first occurrence, each with its number of occurrences
count_sequences(records) ==
    LET firsts == SelectSeq([i \in 1..Len(records) |-> i],
                            LAMBDA i : \A j \in 1..(i - 1) : records[j] # records[i])
    IN  [k \in 1..Len(firsts) |->
            [seq |-> records[firsts[k]],
             count |-> Cardinality({j \in 1..Len(records) : records[j] = records[firsts[k]]})]]

\* Counter.most_common(n): by decreasing count, equal counts in order of
\* first occurrence, the first n of them
most_common(counter, n) ==
    LET indexed == [i \in 1..Len(counter) |-> [at |-> i, e |-> counter[i]]]
        sorted == SortSeq(indexed, LAMBDA a, b :
                      a.e.count > b.e.count \/ (a.e.count = b.e.count /\ a.at < b.at))
    IN  [i \in 1..Min(n, Len(counter)) |-> sorted[i].e]

\* lines 73-89 with the one counter analyze hands over when files are not split
find_most_frequent_sequences(file, counter, n_top) ==
    [file_name |-> file.path, most_common |-> most_common(counter, n_top)]

\* lines 113-117, for one file: fast_file_reader returns the file itself,
\* parallel_process runs getattr(self, self.method) on it in a pool of
\* min(num_cpus, 1) processes, and downstream_trigger()(fasta, results)
\* makes the summary entry.  The first failure ends analyze.
analyze_file(f, file) ==
    IF f.method \notin DOMAIN MethodParameters THEN Raise(AttributeError)
    ELSE IF Min(f.num_cpus, 1) < 1 THEN Raise(ValueError)
    ELSE IF MethodParameters[f.method] # 1 THEN Raise(TypeError)
    ELSE IF f.method \notin downstream_map_keys THEN Raise(KeyError)
    ELSE Returned(find_most_frequent_sequences(file, count_sequences(file.records),
                                               f.n_top))

\* lines 104-118: analyze over all the files
analyze(f) ==
    LET outs == [i \in 1..Len(f.fasta_files) |-> analyze_file(f, f.fasta_files[i])]
        bad  == {i \in 1..Len(outs) : outs[i].exc # ""}
    IN  IF bad # {} THEN Raise(outs[Least(bad)].exc)
        ELSE Returned([i \in 1..Len(outs) |-> outs[i].value])

FastaContents == {<<>>, <<"ACGT">>, <<"ACGT", "TT", "TT">>}

FastaFileLists ==
    UNION {{[i \in 1..n |-> [path |-> <<"fasta", i>>, records |-> c[i]]] :
               c \in [1..n -> FastaContents]} : n \in 1..MaxFiles}

FastaWarnings(files) ==
    [k \in 1..Len(SelectSeq(files, LAMBDA f : f.records = <<>>)) |->
        ZeroSizeWarning(SelectSeq(files, LAMBDA f : f.records = <<>>)[k].path)]

\* a call of FastaAnalyzer(...) is about to be made: by main, or by a caller
\* that passes parameters of __init__ only
InitFasta ==
    /\ PipeOff
    /\ warnings = <<>>
    /\ fastq = Idle
    /\ retriever = Idle
    /\ \E call \in {MainArguments, DirectArguments},
          m \in {"find_most_frequent_sequences", "count_sequences"},
          files \in FastaFileLists, n \in 1..2, c \in 0..MaxCpus :
           /\ call = MainArguments => m = "find_most_frequent_sequences"
           /\ fasta = [pc |-> "start",
                       arguments |-> call,
                       method |-> m,
                       n_top |-> n,
                       num_cpus |-> c,
                       directory |-> files,   \* the .fasta files under the path
                       fasta_files |-> <<>>,
                       summary |-> <<>>,
                       raised |-> ""]

\* fasta_analyzer.py lines 10-29: binding the arguments raises TypeError for
\* a keyword __init__ does not have; find_input_files (utility.py 91-116)
\* raises KeyError for a method filename_suffix does not list, and warns of
\* each file of size zero
FastaConstruct ==
    /\ fasta.pc = "start"
    /\ LET out == IF ~(fasta.arguments \subseteq InitParameters) THEN Raise(TypeError)
                  ELSE IF fasta.method \notin filename_suffix_keys THEN Raise(KeyError)
                  ELSE Returned(fasta.directory)
       IN  /\ fasta' = IF log(out).exc # ""
                       THEN [fasta EXCEPT !.pc = "failed", !.raised = log(out).exc]
                       ELSE [fasta EXCEPT !.pc = "constructed", !.fasta_files = out.value]
           /\ warnings' = IF out.exc = "" THEN FastaWarnings(out.value) ELSE warnings
    /\ UNCHANGED <<pipeVars, callVars, fastq, retriever>>

\* dfci_analysis.py line 81: analyzer.analyze()
FastaAnalyze ==
    /\ fasta.pc = "constructed"
    /\ LET out == log(analyze(fasta))
       IN  fasta' = IF out.exc # ""
                    THEN [fasta EXCEPT !.pc = "failed", !.raised = out.exc]
                    ELSE [fasta EXCEPT !.pc = "done", !.summary = out.value]
    /\ UNCHANGED <<pipeVars, callVars, warnings, fastq, retriever>>

NextFasta ==
    \/ FastaConstruct
    \/ FastaAnalyze

SpecFasta == InitFasta /\ [][NextFasta]_vars

----------------------------------------------------------------------------
(* EnsemblVariantInfoRetriever *)

HTTPError == "HTTPError"                 \* raised by response.raise_for_status()
ConnectionError == "ConnectionError"     \* raised by requests.get itself
RequestException == "RequestException"   \* raised by lines 68 and 92
UnboundLocalError == "UnboundLocalError"

\* results of get_variant_info / get_transcript_info
Json(v) == [exc |-> "", none |-> FALSE, json |-> v]
ReturnNone == [exc |-> "", none |-> TRUE, json |-> <<>>]
RaiseExc(e) == [exc |-> e, none |-> FALSE, json |-> <<>>]

\* `if variant_info:` / `if transcript_info:`
Truthy(outcome) == outcome.exc = "" /\ ~outcome.none /\ Len(outcome.json) > 0

\* a colocated variant of an answer either lists transcript consequences or
\* (an intergenic variant) has no such key
ColocatedVariants == {"with_transcript", "without_transcript"}

\* what the remote service does with one request.  ok: status 200 and a JSON
\* body; http_error: an error status, whose text may say the ID is unknown;
\* no_response: requests.get raised, so no response object exists
\* the JSON lists the variant service answers with: empty, one variant, two
ColocatedLists ==
    {<<>>, <<"with_transcript">>, <<"without_transcript">>,
     <<"with_transcript", "with_transcript">>,
     <<"with_transcript", "without_transcript">>}

VariantAnswers ==
    {[status |-> "ok", not_found |-> FALSE, json |-> q] : q \in ColocatedLists}
    \cup {[status |-> "http_error", not_found |-> b, json |-> <<>>] : b \in BOOLEAN}
    \cup {[status |-> "no_response", not_found |-> FALSE, json |-> <<>>]}

TranscriptAnswers ==
    {[status |-> "ok", not_found |-> FALSE, json |-> <<"display_name">>]}
    \cup {[status |-> "http_error", not_found |-> b, json |-> <<>>] : b \in BOOLEAN}
    \cup {[status |-> "no_response", not_found |-> FALSE, json |-> <<>>]}

\* the exception requests raises inside the try block, "" if none
RequestError(answer) ==
    CASE answer.status = "http_error" -> HTTPError
      [] answer.status = "no_response" -> ConnectionError
      [] OTHER -> ""

\* lines 57-68 and 81-92, the bodies of get_variant_info and
\* get_transcript_info: the except clause returns None when skip_bad_call is
\* set; otherwise it reads response.text, which is unbound when requests.get
\* itself raised, returns None when the text says the ID is unknown, and
\* raises a new RequestException in every other case
get_info(skip_bad_call, answer) ==
    IF RequestError(answer) = "" THEN Json(answer.json)
    ELSE IF skip_bad_call THEN ReturnNone
    ELSE IF answer.status = "no_response" THEN RaiseExc(UnboundLocalError)
    ELSE IF answer.not_found THEN ReturnNone
    ELSE RaiseExc(RequestException)

\* lines 66 and 90: the WARNING line printed for an unknown ID
InfoWarning(skip_bad_call, answer) ==
    ~skip_bad_call /\ answer.status = "http_error" /\ answer.not_found

\* mutant of RequestsGet: a failed request is sent a second time
RequestsGetRetrying(api, id, answer) ==
    IF RequestError(answer) = ""
    THEN <<[api |-> api, id |-> id]>>
    ELSE <<[api |-> api, id |-> id], [api |-> api, id |-> id]>>

\* lines 59 and 83: the HTTP requests one call of get_*_info sends
RequestsGet(api, id, answer) == <<[api |-> api, id |-> id]>>

\* line 102
VariantHeader == <<"Variant ID", "Alleles", "Location", "Effects", "Gene">>
\* line 116
InfoRow(variant_id) == <<variant_id, "alleles", "location", "effects", "gene_name">>
\* lines 118 and 120
DotRow(variant_id) == <<variant_id, DOT, DOT, DOT, DOT>>

VariantIdLists == UNION {[1..n -> {"rs1", "rs2"}] : n \in 0..MaxIds}

\* the state after __init__ (lines 13-29): the IDs are read
InitRetriever ==
    /\ PipeOff
    /\ warnings = <<>>
    /\ fastq = Idle
    /\ fasta = Idle
    /\ \E ids \in VariantIdLists, skip \in BOOLEAN :
           retriever = [pc |-> "start",
                        variant_ids |-> ids,
                        skip_bad_call |-> skip,
                        index |-> 0,              \* IDs the for loop is done with
                        variant_info |-> <<>>,    \* colocated variants still to handle
                        colocated_seen |-> 0,     \* colocated variants answered so far
                        calls |-> <<>>,           \* HTTP requests sent, in order
                        request_errors |-> <<>>,  \* exceptions requests raised
                        info_warnings |-> 0,      \* WARNING lines printed
                        rows |-> <<>>,            \* rows of the output file
                        row_index |-> <<>>,       \* per data row, the index of its ID
                        logged |-> <<>>,          \* records written by the log wrappers
                        raised |-> ""]            \* exception out of fetch_and_write_variant_info

\* one more request error on the record
NoteError(func, answer) ==
    IF RequestError(answer) = "" THEN <<>>
    ELSE <<[func |-> func, exc |-> RequestError(answer),
            not_found |-> answer.not_found,
            response |-> answer.status # "no_response"]>>

\* the exception leaves the for loop and the with block, and the wrapper of
\* fetch_and_write_variant_info logs it and raises it again
FetchRaises(r, outcome, inner) ==
    [r EXCEPT !.pc = "failed",
              !.raised = log(outcome).exc,
              !.logged = @ \o inner \o LogRecords("fetch_and_write_variant_info", log(outcome))]

\* lines 100-102
RetrieverOpen ==
    /\ retriever.pc = "start"
    /\ retriever' = [retriever EXCEPT !.pc = "loop", !.rows = <<VariantHeader>>]
    /\ UNCHANGED <<pipeVars, callVars, warnings, fastq, fasta>>

\* lines 104-106 and 119-120: the next ID's call of get_variant_info
RetrieverVariant(answer) ==
    /\ retriever.pc = "loop"
    /\ retriever.index < Len(retriever.variant_ids)
    /\ LET id   == retriever.variant_ids[retriever.index + 1]
           body == get_info(retriever.skip_bad_call, answer)
           out  == log(body)
           r    == [retriever EXCEPT
                       !.calls = @ \o RequestsGet("vep", id, answer),
                       !.request_errors = @ \o NoteError("get_variant_info", answer),
                       !.info_warnings =
                           IF InfoWarning(retriever.skip_bad_call, answer) THEN @ + 1 ELSE @]
       IN  retriever' =
             IF out.exc # ""
             THEN FetchRaises(r, out, LogRecords("get_variant_info", body))
             ELSE IF Truthy(out)
             THEN [r EXCEPT !.pc = "colocated",
                            !.variant_info = out.json,
                            !.colocated_seen = @ + Len(out.json)]
             ELSE [r EXCEPT !.rows = Append(@, DotRow(id)),
                            !.row_index = Append(@, retriever.index + 1),
                            !.index = @ + 1]
    /\ UNCHANGED <<pipeVars, callVars, warnings, fastq, fasta>>

\* lines 107-118: one pass of the loop over the colocated variants
RetrieverColocated(answer) ==
    /\ retriever.pc = "colocated"
    /\ LET id   == retriever.variant_ids[retriever.index + 1]
           v    == Head(retriever.variant_info)
           rest == Tail(retriever.variant_info)
           body == get_info(retriever.skip_bad_call, answer)
           out  == log(body)
           r    == [retriever EXCEPT
                       !.calls = @ \o RequestsGet("lookup", id, answer),
                       !.request_errors = @ \o NoteError("get_transcript_info", answer),
                       !.info_warnings =
                           IF InfoWarning(retriever.skip_bad_call, answer) THEN @ + 1 ELSE @]
           next == [r EXCEPT !.variant_info = rest,
                             !.row_index = Append(@, retriever.index + 1),
                             !.index = IF rest = <<>> THEN @ + 1 ELSE @,
                             !.pc = IF rest = <<>> THEN "loop" ELSE "colocated"]
       IN  retriever' =
             IF v = "without_transcript"
             \* line 111: colocated_variant.get("transcript_consequences") is None
             THEN FetchRaises(retriever, RaiseExc(TypeError), <<>>)
             ELSE IF out.exc # ""
             THEN FetchRaises(r, out, LogRecords("get_transcript_info", body))
             ELSE IF Truthy(out)
             THEN [next EXCEPT !.rows = Append(@, InfoRow(id))]
             ELSE [next EXCEPT !.rows = Append(@, DotRow(id))]
    /\ UNCHANGED <<pipeVars, callVars, warnings, fastq, fasta>>

\* the loop is over: the file is closed, line 122 prints, the method returns
RetrieverDone ==
    /\ retriever.pc = "loop"
    /\ retriever.index = Len(retriever.variant_ids)
    /\ retriever' = [retriever EXCEPT !.pc = "done"]
    /\ UNCHANGED <<pipeVars, callVars, warnings, fastq, fasta>>

NextRetriever ==
    \/ RetrieverOpen
    \/ \E answer \in VariantAnswers : RetrieverVariant(answer)
    \/ \E answer \in TranscriptAnswers : RetrieverColocated(answer)
    \/ RetrieverDone

SpecRetriever == InitRetriever /\ [][NextRetriever]_vars

----------------------------------------------------------------------------
(* Properties of extract_annotation, checked under SpecAttr *)

\* the recognized keys as the data model lists them, in canonical order
RecognizedKeys == <<"gene_id", "transcript_id", "exon_number", "exon_id", "gene_name">>

ArgKeys == {arg.fields[i].key : i \in 1..Len(arg.fields)}

\* key "value" fields separated by ';', at most one ';' after the last
WellFormed ==
    /\ arg.op = "extract_annotation"
    /\ \A i \in 1..Len(arg.fields) : arg.fields[i].shape \in {"quoted", "emptyval"}
    /\ arg.term \in {<<>>, <<SEMI>>}

\* the value the string gives a key: that of the last field naming it
LastIndexOf(key) ==
    CHOOSE i \in 1..Len(arg.fields) :
        /\ arg.fields[i].key = key
        /\ \A j \in (i + 1)..Len(arg.fields) : arg.fields[j].key # key

GivenValue(key) ==
    IF arg.fields[LastIndexOf(key)].shape = "quoted" THEN <<ValueOf(key)>> ELSE <<>>

\* C1. Projection completeness: an attribute string holding all five
\* recognized keys, in any order and spacing, projects to exactly their five
\* values, tab-joined in canonical order; no present key becomes '.'.
C1_ProjectionCompleteness ==
    (WellFormed /\ ret # NotCalled /\ PermKeys \subseteq ArgKeys)
        => ret = Returned(Join(TAB, [i \in 1..5 |-> GivenValue(RecognizedKeys[i])]))

\* the projection's five columns
ProjectionColumns == Split(ret.value, TAB)

\* the same string without its fields of unrecognized keys
RecognizedFieldsOnly ==
    SelectSeq(arg.fields, LAMBDA f : f.key \in PermKeys)

ProjectionOfRecognizedOnly ==
    IF Len(RecognizedFieldsOnly) = 0
    THEN Returned(Join(TAB, [i \in 1..5 |-> <<DOT>>]))
    ELSE extract_annotation(RenderAttributes(RecognizedFieldsOnly, arg.style, arg.term))

\* C7. Missing-key placeholder and unknown-key dropping: a well-formed
\* attribute string projects to exactly five tab-separated columns, a
\* recognized key the string does not hold projects to '.', and a key outside
\* the recognized set neither shows in the projection nor changes it.
C7_PlaceholderAndDropping ==
    (WellFormed /\ ret # NotCalled)
        => /\ ret.exc = ""
           /\ Len(ProjectionColumns) = 5
           /\ \A i \in 1..5 :
                  RecognizedKeys[i] \notin ArgKeys => ProjectionColumns[i] = <<DOT>>
           /\ \A i \in 1..Len(ret.value) : ret.value[i] # ValueOf(NoteKey)
           /\ ret = ProjectionOfRecognizedOnly

\* a well-formed string with an unrecognized key and without gene_name was projected
C7_Witness ==
    /\ WellFormed
    /\ ret # NotCalled
    /\ NoteKey \in ArgKeys
    /\ "gene_id" \in ArgKeys
    /\ "gene_name" \notin ArgKeys

\* one or more key "value" fields, separated by ';', with a single ';' after
\* the last one
SingleTrailingSemicolon ==
    /\ arg.op = "extract_annotation"
    /\ Len(arg.fields) >= 1
    /\ \A i \in 1..Len(arg.fields) : arg.fields[i].shape \in {"quoted", "emptyval"}
    /\ arg.term = <<SEMI>>

\* C15. Trailing-semicolon tolerance: an attribute string of key "value"
\* fields ended by a single ';' is projected without raising; the empty
\* segment after the final ';' is not parsed as a field, so exactly the
\* string's fields are parsed and five columns come back.
C15_TrailingSemicolon ==
    (SingleTrailingSemicolon /\ ret # NotCalled)
        => /\ ret.exc = ""
           /\ Len(Split(ret.value, TAB)) = Len(annotation_fields)
           /\ Len(AttributeFields(arg.attributes_field)) = Len(arg.fields)
           /\ \A i \in 1..Len(arg.fields) :
                  FieldKey(AttributeFields(arg.attributes_field)[i]) = <<arg.fields[i].key>>

\* a string of three fields, blanks after the ';' separators, ended by one ';'
C15_Witness ==
    /\ SingleTrailingSemicolon
    /\ ret # NotCalled
    /\ ret.exc = ""
    /\ Len(arg.fields) = 3
    /\ arg.style.pre

----------------------------------------------------------------------------
(* Properties of annotate_position, checked under SpecPos *)

\* rows of the table whose closed interval [start, end] holds the queried
\* position on the queried chromosome
MatchingRows ==
    {i \in 1..Len(arg.table) :
        /\ arg.table[i].chr = arg.chromosome
        /\ arg.position \in arg.table[i].start..arg.table[i].end}

\* the j-th matching row, counting down the table
NthMatching(j) ==
    CHOOSE i \in MatchingRows : Cardinality({m \in MatchingRows : m < i}) = j - 1

PositionCalled == arg.op = "annotate_position" /\ ret # NotCalled

\* the rows annotate_position returned
ReturnedRows == Split(ret.value, NL)

\* C4. No-match fallback: when no feature of the queried chromosome holds the
\* position, annotate_position returns exactly one row: chromosome, position
\* and five '.'; it never returns an empty result.
C4_NoMatchFallback ==
    PositionCalled
        => /\ ret.exc = "" /\ Len(ret.value) > 0
           /\ MatchingRows = {}
                => ret.value = <<arg.chromosome, TAB>> \o Str(arg.position)
                                 \o <<TAB, DOT, TAB, DOT, TAB, DOT, TAB, DOT, TAB, DOT>>

\* a position past every feature of its chromosome was annotated
C4_Witness ==
    /\ PositionCalled
    /\ MatchingRows = {}
    /\ \E i \in 1..Len(arg.table) :
           arg.table[i].chr = arg.chromosome /\ arg.table[i].end < arg.position

\* C5. Overlap expansion: a position k >= 1 features overlap yields exactly k
\* newline-joined rows, the j-th being chromosome, position and the projection
\* of the j-th overlapping feature in table order.
C5_OverlapExpansion ==
    (PositionCalled /\ MatchingRows # {})
        => /\ Len(ReturnedRows) = Cardinality(MatchingRows)
           /\ \A j \in 1..Len(ReturnedRows) :
                  ReturnedRows[j] =
                      <<arg.chromosome, TAB>> \o Str(arg.position) \o <<TAB>>
                      \o extract_annotation(arg.table[NthMatching(j)].attributes).value

\* two features with different attributes overlap the position, and the one
\* first in the table starts later
C5_Witness ==
    /\ PositionCalled
    /\ Cardinality(MatchingRows) = 2
    /\ arg.table[1].start > arg.table[2].start
    /\ arg.table[1].attributes # arg.table[2].attributes

\* C6. Closed-interval overlap: a feature contributes a row exactly when its
\* chromosome equals the queried one and start <= position <= end; so
\* position = start and position = end count, start - 1 and end + 1 do not,
\* and a feature with start > end overlaps nothing.
C6_ClosedInterval ==
    PositionCalled
        => /\ Len(ReturnedRows) = Max(1, Cardinality(MatchingRows))
           /\ (ret.value = FallbackRow(arg.chromosome, arg.position))
                  <=> (MatchingRows = {})
           /\ Len(arg.table) = 1 =>
                  LET f == arg.table[1]
                      missed == ret.value = FallbackRow(arg.chromosome, arg.position)
                  IN  /\ (f.chr = arg.chromosome /\ f.start <= f.end
                            /\ arg.position \in {f.start, f.end}) => ~missed
                      /\ (f.start <= f.end
                            /\ arg.position \in {f.start - 1, f.end + 1}) => missed
                      /\ f.start > f.end => missed
                      /\ f.chr # arg.chromosome => missed

\* one-feature tables queried at the feature's end, and just past it
C6_Witness ==
    /\ PositionCalled
    /\ Len(arg.table) = 1
    /\ arg.table[1].chr = arg.chromosome
    /\ arg.table[1].start < arg.table[1].end
    /\ arg.position = arg.table[1].end
    /\ ret.value # FallbackRow(arg.chromosome, arg.position)

----------------------------------------------------------------------------
(* Properties of annotate_all_positions, checked under Spec *)

\* the bag (multiset) of a sequence's elements
BagOfSeq(q) ==
    [x \in {q[i] : i \in 1..Len(q)} |-> Cardinality({i \in 1..Len(q) : q[i] = x})]

\* features overlapping the i-th query position
OverlapCount(i) ==
    Cardinality({k \in 1..Len(knowledge_df) :
        /\ knowledge_df[k].chr = input_positions_df[i].chromosome
        /\ input_positions_df[i].position
              \in knowledge_df[k].start..knowledge_df[k].end})

RECURSIVE SumTo(_, _)
SumTo(f(_), n) == IF n = 0 THEN 0 ELSE f(n) + SumTo(f, n - 1)

\* the data rows of the output file (the lines after the header)
DataRows == IF Len(output_file.lines) = 0 THEN <<>> ELSE Tail(output_file.lines)

\* the run with one partition: execute_annotation over the whole list, then
\* the writer's loop
OnePartitionRun == execute_annotation(knowledge_df, input_positions_df)
OnePartitionRows ==
    Concat([i \in 1..Len(OnePartitionRun.value) |->
               WrittenLines(OnePartitionRun.value[i].annotation)])

RunEnded == pc \in {"done", "failed"}

\* C2. Partition-invariance: with any number N >= 1 of partitions, empty
\* ones included, annotate_all_positions completes and writes the same
\* multiset of data rows as with one partition.
C2_PartitionInvariance ==
    (RunEnded /\ OnePartitionRun.exc = "")
        => /\ pc = "done"
           /\ BagOfSeq(DataRows) = BagOfSeq(OnePartitionRows)

\* C3. Row-count conservation: once annotate_all_positions has finished, the
\* output holds, after the header, as many lines as the sum over the query
\* positions of max(1, number of overlapping features).
C3_RowCountConservation ==
    pc = "done"
        => Len(output_file.lines) - 1
             = SumTo(LAMBDA i : Max(1, OverlapCount(i)), Len(input_positions_df))

\* a finished run over several partitions whose positions include one with
\* two overlapping features, one with none, and a duplicate
C3_Witness ==
    /\ pc = "done"
    /\ Len(sub_df) >= 2
    /\ \E i \in 1..Len(input_positions_df) : OverlapCount(i) = 2
    /\ \E i \in 1..Len(input_positions_df) : OverlapCount(i) = 0
    /\ \E i, j \in 1..Len(input_positions_df) :
           i # j /\ input_positions_df[i] = input_positions_df[j]

\* C8. Pool size: the pool has max(c, 1) processes, and the input is split
\* into max(c, 1) partitions, c being the requested worker count.
C8_PoolSize ==
    pc # "start"
        => /\ pool_size = Max(num_cpus, 1)
           /\ Len(sub_df) = Max(num_cpus, 1)

\* some queried position is overlapped by a feature one of whose attribute
\* fields holds no '"'
ParseErrorReached ==
    \E i \in 1..Len(input_positions_df), k \in 1..Len(knowledge_df) :
        /\ knowledge_df[k].chr = input_positions_df[i].chromosome
        /\ input_positions_df[i].position
              \in knowledge_df[k].start..knowledge_df[k].end
        /\ \E n \in 1..Len(AttributeFields(knowledge_df[k].attributes)) :
               LET field == AttributeFields(knowledge_df[k].attributes)[n]
               IN  \A c \in 1..Len(field) : field[c] # DQ

\* C9. A fatal parse error leaves no partial output: when an attribute field
\* reached during annotation has no '"', the gathering never completes, the
\* run can end only by raising the IndexError out of annotate_all_positions,
\* and the output file is neither created nor modified, whichever partition
\* fails and however many others completed.
C9_NoPartialOutput ==
    ParseErrorReached
        => /\ output_file \in {NoFile, StaleFile}
           /\ pc \in {"start", "gathering", "failed"}
           /\ Len(task) > 0 => Len(gathered) < Len(task)
           /\ annotated_df = <<>>
           /\ pc = "failed" => raised = IndexError
           /\ raised # "" => pc = "failed"

\* the run failed on a parse error in its second partition after the first
\* partition's results were gathered, and an older output file is untouched
C9_Witness ==
    /\ ParseErrorReached
    /\ pc = "failed"
    /\ raised = IndexError
    /\ Len(gathered) >= 1
    /\ output_file = StaleFile

\* the queries of a table of result rows, in row order
QueriesOf(df) ==
    [i \in 1..Len(df) |-> Query(df[i].chromosome, df[i].position)]

\* the lines the writer produces for the query positions taken in input order
RowsInInputOrder ==
    Concat([i \in 1..Len(input_positions_df) |->
               WrittenLines(annotate_position(knowledge_df,
                                              input_positions_df[i].chromosome,
                                              input_positions_df[i].position).value)])

\* C10 as stated: in the lazy mode the gathered results follow the order in
\* which the workers finished, so they are aligned with submission order only
\* when the workers happen to finish in that order.
C10_GatheredInCompletionOrder ==
    pc = "done" => gathered = completion_order

\* C10 amended: in the lazy, chunked mode annotate_all_positions uses, the
\* results are gathered in submission order whatever the chunk size and the
\* order in which the workers finish, so the rows of the concatenated table
\* and of the output file follow input order.
C10_LazyGatherKeepsOrder ==
    /\ \A i \in 1..Len(gathered) : gathered[i] = i
    /\ pc \in {"open", "writing", "done"} => QueriesOf(annotated_df) = input_positions_df
    /\ pc = "done" => DataRows = RowsInInputOrder

\* a finished run with chunks of two partitions whose second task was
\* finished before its first
C10_Witness ==
    /\ pc = "done"
    /\ chuck_size > 1
    /\ Len(task) >= 2
    /\ completion_order[1] # 1

\* C13. Submission-order assembly: whatever the order in which the workers
\* finish, the i-th result parallel_process returns is execute_annotation of
\* the i-th partition; the partitions are contiguous slices that concatenate
\* to the input, so the concatenated table and the written file list the row
\* groups of the query positions in input order.
C13_SubmissionOrderAssembly ==
    /\ pc \in {"gathering", "open", "writing", "done", "failed"}
          => Concat(sub_df) = input_positions_df
    \* parallel_process has returned
    /\ pc = "open"
          => /\ Len(results) = Len(sub_df)
             /\ \A i \in 1..Len(results) :
                    results[i] = execute_annotation(knowledge_df, sub_df[i]).value
             /\ Len(annotated_df) = Len(input_positions_df)
             /\ \A i \in 1..Len(annotated_df) :
                    annotated_df[i] =
                        [chromosome |-> input_positions_df[i].chromosome,
                         position   |-> input_positions_df[i].position,
                         annotation |-> annotate_position(
                                            knowledge_df,
                                            input_positions_df[i].chromosome,
                                            input_positions_df[i].position).value]
    \* annotate_all_positions has returned
    /\ pc = "done"
          => /\ QueriesOf(annotated_df) = input_positions_df
             /\ DataRows = Concat([i \in 1..Len(annotated_df) |->
                                      Split(annotated_df[i].annotation, NL)])

\* three one-row partitions of different positions, finished last-first by
\* several workers, were assembled and written
C13_Witness ==
    /\ pc = "done"
    /\ Len(sub_df) = 3
    /\ pool_size = 3
    /\ chuck_size = 1
    /\ completion_order = <<3, 2, 1>>
    /\ input_positions_df[1] # input_positions_df[2]
    /\ input_positions_df[2] # input_positions_df[3]

\* C16. Shared-resource frame: no step changes the feature table, and the
\* output file changes only in a step of the coordinator taken after every
\* partition's result was gathered, never while workers run.
C16_SharedResourceFrame ==
    [][/\ knowledge_df' = knowledge_df
       /\ output_file' # output_file
             => /\ pc \in {"open", "writing"}
                /\ Len(gathered) = Len(task)
                /\ \A t \in 1..Len(task) : task[t] = "finished"
                /\ task' = task]_vars

\* the coordinator has replaced an older file and written rows that several
\* workers computed
C16_Witness ==
    /\ pc = "done"
    /\ pool_size >= 2
    /\ Len(task) >= 2
    /\ Len(output_file.lines) >= 3
    /\ knowledge_df = TableOverlap

----------------------------------------------------------------------------
(* Properties of the annotation command on edge-case files, checked under SpecEdge *)

\* C12. Zero-byte input files are not fatal: after the zero-size warning for
\* the feature file the run does not raise; it goes on to completion and
\* writes, for want of features, one placeholder row per query position.
C12_ZeroByteNotFatal ==
    (pc # "idle" /\ knowledge_df = TableZeroByte)
        => /\ warnings = <<ZeroSizeWarning("knowledge_file")>>
           /\ raised = ""
           /\ pc # "failed"
           /\ pc = "done"
                => DataRows = [i \in 1..Len(input_positions_df) |->
                                  FallbackRow(input_positions_df[i].chromosome,
                                              input_positions_df[i].position)]

\* C14. Fixed output shape: the file annotate_all_positions writes starts
\* with the header, holds it nowhere else, and each of its other lines has
\* exactly seven tab-separated fields.
C14_FixedOutputShape ==
    output_file.exists
        => /\ output_file.lines[1] = Header
           /\ Len(Split(Header, TAB)) = 7
           /\ \A i \in 2..Len(output_file.lines) :
                  /\ output_file.lines[i] # Header
                  /\ Len(Split(output_file.lines[i], TAB)) = 7

----------------------------------------------------------------------------
(* Properties of FastqAnalyzer, checked under SpecFastq *)

\* records of a file longer than the threshold
LongRecords(file, t) == {k \in 1..Len(file.records) : file.records[k] > t}

\* the tuple is the one the claim describes for this file and threshold
TupleFor(r, file, t) ==
    LET total == Len(file.records)
        long == Cardinality(LongRecords(file, t))
    IN  /\ r.file_path = file.path
        /\ r.total_seq_count = total
        /\ r.threshold = t
        /\ r.percentage.den > 0
        /\ total > 0 => r.percentage.num * total = 100 * long * r.percentage.den
        /\ total = 0 => r.percentage.num = 0
        /\ 0 <= r.percentage.num
        /\ r.percentage.num <= 100 * r.percentage.den

----------------------------------------------------------------------------
(* Properties of FastaAnalyzer, checked under SpecFasta *)

\* the analyzer is the one the find_most_frequent_sequences command builds
BuiltByMain ==
    /\ fasta.pc # "idle"
    /\ fasta.arguments = MainArguments
    /\ fasta.method = "find_most_frequent_sequences"

\* at most n_top (sequence, count) pairs of the file, counts right and not
\* increasing
TopEntryFor(entry, file, n_top) ==
    /\ entry.file_name = file.path
    /\ Len(entry.most_common) <= n_top
    /\ \A i \in 1..Len(entry.most_common) :
           entry.most_common[i].count
               = Cardinality({j \in 1..Len(file.records) :
                                 file.records[j] = entry.most_common[i].seq})
    /\ \A i \in 1..(Len(entry.most_common) - 1) :
           entry.most_common[i].count >= entry.most_common[i + 1].count

\* C18. FASTA frequent-sequence dispatch: the analyzer main builds for the
\* find_most_frequent_sequences command is constructed and analyzed without
\* raising, and analyze returns one (file name, top sequences) entry per
\* FASTA file found.
C18_FrequentSequenceDispatch ==
    BuiltByMain
        => /\ fasta.pc # "failed"
           /\ fasta.raised = ""
           /\ fasta.pc = "done"
                => /\ Len(fasta.summary) = Len(fasta.fasta_files)
                   /\ \A i \in 1..Len(fasta.summary) :
                          TopEntryFor(fasta.summary[i], fasta.fasta_files[i], fasta.n_top)

----------------------------------------------------------------------------
(* Properties of batch_iterator, checked under SpecBatch *)

BatchCalled == arg.op = "batch_iterator" /\ ret # NotCalled

----------------------------------------------------------------------------
(* Properties of the log wrapper and the retriever, checked under SpecRetriever *)

\* a request error the except clause does not turn into None
Fatal(err) == ~retriever.skip_bad_call /\ ~(err.response /\ err.not_found)

\* C11 as stated.  No error is swallowed: once requests has raised inside
\* get_variant_info or get_transcript_info, the operation ends by raising that
\* same exception, and no failure is reported by a warning alone.
C11_NoErrorSwallowed ==
    (retriever.pc # "idle" /\ retriever.request_errors # <<>>)
        => /\ retriever.pc = "failed"
           /\ retriever.raised
                  = retriever.request_errors[Len(retriever.request_errors)].exc
           /\ retriever.info_warnings = 0

\* C11 amended.  The log wrapper swallows nothing: an exception that leaves
\* the body of a wrapped function is logged by each wrapper it crosses and
\* reaches the caller as the same exception, and a normal result is never
\* replaced.  Inside get_variant_info and get_transcript_info a request error
\* is handled before the wrapper sees it: it becomes the result None when
\* skip_bad_call is set or (with a printed warning) when the service says the
\* ID is unknown; otherwise the call raises a new RequestException, or an
\* UnboundLocalError when requests.get itself failed, which ends the run.
C11_LogPassesThrough ==
    retriever.pc # "idle"
        => LET errs == retriever.request_errors
               logged == retriever.logged
           IN  /\ (retriever.raised # "") <=> (retriever.pc = "failed")
               /\ retriever.pc # "failed" => logged = <<>>
               /\ retriever.pc = "failed"
                    => /\ Len(logged) \in {1, 2}
                       /\ \A i \in 1..Len(logged) : logged[i].exc = retriever.raised
                       /\ logged[Len(logged)].func = "fetch_and_write_variant_info"
                       /\ Len(logged) = 2 <=> retriever.raised # TypeError
               /\ \A i \in 1..Len(errs) :
                      Fatal(errs[i])
                          => /\ i = Len(errs)
                             /\ retriever.pc = "failed"
                             /\ logged[1].func = errs[i].func
                             /\ retriever.raised = IF errs[i].response
                                                   THEN RequestException
                                                   ELSE UnboundLocalError
               /\ retriever.raised \in {RequestException, UnboundLocalError}
                    => errs # <<>> /\ Fatal(errs[Len(errs)])
               /\ retriever.info_warnings
                    = Cardinality({i \in 1..Len(errs) :
                          ~retriever.skip_bad_call /\ errs[i].response /\ errs[i].not_found})

\* an unknown ID was answered with a warning and a '.' row, and a later
\* request error ended the run through both wrappers
C11_Witness ==
    /\ retriever.pc = "failed"
    /\ retriever.raised = RequestException
    /\ retriever.info_warnings >= 1
    /\ Len(retriever.rows) >= 2
    /\ Len(retriever.logged) = 2

\* the requests sent to one of the two services, in order
CallsTo(api) == SelectSeq(retriever.calls, LAMBDA c : c.api = api)

\* every ID up to the n-th has a row
HasRows(n) == \A i \in 1..n : \E k \in 1..Len(retriever.row_index) : retriever.row_index[k] = i

\* C19 as stated.  fetch_and_write_variant_info sends exactly one HTTP request
\* per input ID, in input order, and writes at least one row per input ID.
C19_OneCallPerId ==
    retriever.pc = "done"
        => /\ Len(retriever.calls) = Len(retriever.variant_ids)
           /\ \A i \in 1..Len(retriever.calls) :
                  retriever.calls[i].id = retriever.variant_ids[i]
           /\ HasRows(Len(retriever.variant_ids))

\* C19 amended.  The IDs are processed one at a time in input order; each ID
\* reached gets exactly one request to the variant service, and each colocated
\* variant of a non-empty answer gets exactly one further request to the
\* transcript service, sent before the next ID's variant request; nothing is
\* sent twice.  Every ID the loop is done with has at least one row, so a run
\* that returns has at least one row per input ID.
C19_CallsPerIdAndVariant ==
    retriever.pc # "idle"
        => LET ids == retriever.variant_ids
               vep == CallsTo("vep")
               calls == retriever.calls
           IN  /\ Len(vep) \in {retriever.index, retriever.index + 1}
               /\ Len(vep) <= Len(ids)
               /\ \A i \in 1..Len(vep) : vep[i].id = ids[i]
               /\ \A k \in 1..Len(calls) :
                      calls[k].api = "lookup"
                          => calls[k].id
                               = ids[Cardinality({j \in 1..k : calls[j].api = "vep"})]
               /\ Len(CallsTo("lookup")) <= retriever.colocated_seen
               /\ retriever.pc \in {"loop", "done"}
                    => Len(calls) = retriever.index + retriever.colocated_seen
               /\ HasRows(retriever.index)
               /\ \A k \in 1..(Len(retriever.row_index) - 1) :
                      retriever.row_index[k] <= retriever.row_index[k + 1]
               /\ retriever.pc # "start"
                    => Len(retriever.rows) = 1 + Len(retriever.row_index)
               /\ retriever.pc = "done" => retriever.index = Len(ids)

\* a run over two IDs returned after more requests than IDs, one of them
\* failed and skipped
C19_Witness ==
    /\ retriever.pc = "done"
    /\ Len(retriever.variant_ids) = 2
    /\ Len(retriever.calls) > 2
    /\ retriever.request_errors # <<>>

====
